---- MODULE Spec2Model ----
(***************************************************************************)
(* Recipe Explorer: the remote catalog client with its three resilience    *)
(* strategies (src/api.js), the cache-or-fetch coordinator (cache.js, used *)
(* by src/app.js) and the startup sequence of src/app.js.                  *)
(*                                                                         *)
(* JavaScript values are tagged records: the field t is the value's type,  *)
(* so that null, a string, an array and an object are pairwise different.  *)
(***************************************************************************)
EXTENDS Integers, Sequences, FiniteSets, TLC

\* ------------------------------------------------------------- bounds
MaxAttempts == 3    \* largest attempts argument given to getMealById
MaxMeals == 2       \* longest meals list in one response body
MaxLetters == 2     \* longest letters array given to searchMealsByFirstLetter
MaxTimeoutTicks == 2 \* largest timeoutMs argument of getMealsByIngredient, in ticks
MaxElapsed == 3     \* ticks the clock of one getMealsByIngredient call runs
MaxCommands == 2    \* menu commands of one session
MaxNow == 3         \* how far the session's clock (Date.now()) runs
DefaultTtl == 1     \* the cache's default TTL, in units of the session's clock

\* ------------------------------------------------------- JS values
Null == [t |-> "null"]
Undefined == [t |-> "undefined"]
Str(s) == [t |-> "string", v |-> s]
Arr(s) == [t |-> "array", v |-> s]
Meal(i, s) == [t |-> "object", idMeal |-> i, strMeal |-> s]

\* The records the remote service can return: two of them share an id.
Meals == {Meal("m1", "x"), Meal("m1", "y"), Meal("m2", "x")}

SeqsUpTo(S, n) == UNION {[1..k -> S] : k \in 0..n}

\* data.meals of a decoded body: null (also standing for an absent field,
\* both are falsy) or a list of records.
BodyMeals == {Null} \cup {Arr(s) : s \in SeqsUpTo(Meals, MaxMeals)}

\* data.meals || []
OrEmpty(meals) == IF meals = Null THEN Arr(<<>>) ELSE meals

VARIABLES
  gmPc,        \* getMealById: "idle", "fetch", "json", "backoff", "done"
  gmId,        \* its id argument
  gmN,         \* the attempts argument of the outermost call
  gmAttempts,  \* the attempts argument of the running (recursive) call
  gmLog,       \* its remote calls and the backoff waits it started, in order
  gmOutcomes,  \* how each remote call ended, in order
  gmBody,      \* data.meals of the body that was decoded, if one was
  gmResult,    \* the value the outermost call resolved with
  gmRaised     \* TRUE when the outermost call rejected

VARIABLES
  flPc,        \* searchMealsByFirstLetter: "idle", "await", "done"
  flLetters,   \* its letters argument
  flUrls,      \* the letter queried by each remote call, in fan-out order
  flCall,      \* per call: "fetch", "json", "fulfilled", "rejected"
  flOutcome,   \* per call: "pending", "reject", "notok", "badjson", "ok"
  flBody,      \* per call: data.meals of the decoded body
  flPartial,   \* per call: the array its callback returned
  flFirst,     \* the call whose callback returned first, 0 while none did
  flResult,    \* the value the function resolved with
  flRaised     \* TRUE when the function rejected

VARIABLES
  ingPc,         \* getMealsByIngredient: "idle", "race", "done"
  ingIngredient, \* its ingredient argument
  ingTimeoutMs,  \* its timeoutMs argument
  ingElapsed,    \* time since the call
  ingFetch,      \* the fetch(...).then(...) promise: "pending", "json",
                 \* "fulfilled", "rejected"
  ingOutcome,    \* how the remote call ended: "pending", "reject", "notok",
                 \* "badjson", "ok"
  ingBody,       \* info.meals of the decoded body
  ingValue,      \* what the fetch promise settled with
  ingTimer,      \* the timer promise: "pending", "fired"
  ingWinner,     \* which of the two settled first: "none", "fetch", "timer"
  ingResult,     \* the value the function resolved with
  ingRaised,     \* TRUE when the function rejected
  ingUnhandled   \* TRUE when a promise rejected with no handler attached

VARIABLES
  now,             \* the session's clock, Date.now()
  cache,           \* the cache store: key -> entry, or Undefined
  remoteCalls,     \* remote calls made so far in the session
  commands,        \* menu commands started so far
  cfPc,            \* getCachedOrFetch: "idle", "producing", "done"
  cfCmd,           \* the command that called it
  cfKey,           \* its key argument
  cfProducerCalls, \* times it invoked its producer
  cfResult,        \* the value it resolved with
  cfRaised,        \* TRUE when it rejected
  cfError,         \* the error it rejected with
  cfStoredAt,      \* when it wrote its entry
  cfNowAtCall,     \* the clock when it was called
  cfCacheAtCall,   \* the cache store when it was called
  cfRemoteAtCall,  \* remoteCalls when it was called
  written,         \* key -> the latest value written through by a finished call
  failed           \* keys whose latest finished call rejected

VARIABLES
  dvPc,       \* viewRecipeDetails: "idle", "producing" (its getCachedOrFetch
              \* awaits the producer), "favorites" (it got a recipe and awaits
              \* favorites.isInFavorites())
  dvId,       \* its recipeId
  dvAwaited,  \* TRUE when its caller awaits it, FALSE when nothing does
  bgPc        \* the fetch(...).then(...).then(...) chain a view left behind:
              \* "none", "pending", "rejected"

VARIABLES
  stPc,         \* main: "start", "awaitAll", "evicting", "menu", "exited"
  favInit,      \* favorites.initializeFavorites(): "idle", "pending",
                \* "resolved", "rejected"
  cacheInit,    \* cache.initializeCache(): the same
  evict,        \* cache.clearExpiredCache(): the same
  evictRuns,    \* times clearExpiredCache was called
  initialized,  \* what initialize() returned: "none", "true", "false"
  exitCode,     \* the code given to process.exit, -1 while running
  stMedium      \* the persisted cache medium as startup finds it

VARIABLES
  smPc,       \* searchMealsByName: "idle", "fetch", "json", "done"
  smQuery,    \* its query argument
  smCalls,    \* remote calls it made
  smElapsed,  \* time since the call while the remote call is outstanding
  smOutcome,  \* how the remote call ended: "pending", "reject", "notok",
              \* "badjson", "ok"
  smBody,     \* data.meals of the decoded body
  smResult,   \* the value the function resolved with
  smRaised    \* TRUE when the function rejected

VARIABLES
  rmPc,       \* getRandomMeal: "idle", "done"
  rmCalls,    \* remote calls it made
  rmResult,   \* the value the function resolved with
  rmRaised    \* TRUE when the function rejected

VARIABLES
  rrPc,       \* getRelatedRecipes: "idle", "fetch", "done"
  rrRecipe,   \* its recipe argument
  rrLimit,    \* its limit argument
  rrCalls,    \* remote calls it made
  rrOutcome,  \* how the remote call ended: "pending", "reject", "notok", "ok"
  rrBody,     \* the meals field of the body the response carried
  rrResult,   \* the value the function resolved with
  rrRaised    \* TRUE when the function rejected

searchVars == <<smPc, smQuery, smCalls, smElapsed, smOutcome, smBody, smResult,
                smRaised>>

randomVars == <<rmPc, rmCalls, rmResult, rmRaised>>

relatedVars == <<rrPc, rrRecipe, rrLimit, rrCalls, rrOutcome, rrBody, rrResult,
                 rrRaised>>

clientVars == <<searchVars, randomVars, relatedVars>>

retryVars == <<gmPc, gmId, gmN, gmAttempts, gmLog, gmOutcomes, gmBody,
               gmResult, gmRaised>>

fanoutVars == <<flPc, flLetters, flUrls, flCall, flOutcome, flBody, flPartial,
                flFirst, flResult, flRaised>>

raceVars == <<ingPc, ingIngredient, ingTimeoutMs, ingElapsed, ingFetch, ingOutcome,
              ingBody, ingValue, ingTimer, ingWinner, ingResult, ingRaised,
              ingUnhandled>>

sessionVars == <<now, cache, remoteCalls, commands, cfPc, cfCmd, cfKey, cfProducerCalls,
                 cfResult, cfRaised, cfError, cfStoredAt, cfNowAtCall, cfCacheAtCall,
                 cfRemoteAtCall, written, failed>>

viewVars == <<dvPc, dvId, dvAwaited, bgPc>>

startupVars == <<stPc, favInit, cacheInit, evict, evictRuns, initialized, exitCode,
                 stMedium>>

vars == <<clientVars, viewVars, retryVars, fanoutVars, raceVars, sessionVars, startupVars>>

\* What the steps of one function leave alone: the other functions' state.
notRetry == <<viewVars, clientVars, fanoutVars, raceVars, sessionVars, startupVars>>
notFanout == <<viewVars, clientVars, retryVars, raceVars, sessionVars, startupVars>>
notRace == <<viewVars, clientVars, retryVars, fanoutVars, sessionVars, startupVars>>
notSession == <<clientVars, viewVars, retryVars, fanoutVars, raceVars, startupVars>>
notClient == <<viewVars, retryVars, fanoutVars, raceVars, sessionVars, startupVars>>

\* ------------------------------------------------------ getMealById
MealIdArgs == {"m1", "m2"}

\* The catch block: retry while attempts > 1, else log and return null.
CatchHandlerOffByOne(attempts) == IF attempts > 0 THEN "retry" ELSE "null"
CatchHandler(attempts) == IF attempts > 1 THEN "retry" ELSE "null"

\* The !response.ok branch: retry while attempts > 1, else throw into the
\* catch block of the same call.
NotOkHandlerRetriesAtOne(attempts) ==
  IF attempts > 0 THEN "retry" ELSE CatchHandler(attempts)
NotOkHandler(attempts) == IF attempts > 1 THEN "retry" ELSE CatchHandler(attempts)

\* data.meals ? data.meals[0] || null : null
FirstMealWholeList(meals) == meals
FirstMealOrNull(meals) ==
  IF meals = Null THEN Null
  ELSE IF Len(meals.v) = 0 THEN Null ELSE meals.v[1]

\* No function of the client was called.
ClientIdle ==
  /\ smPc = "idle"
  /\ smQuery = ""
  /\ smCalls = 0
  /\ smElapsed = 0
  /\ smOutcome = "pending"
  /\ smBody = Undefined
  /\ smResult = Undefined
  /\ smRaised = FALSE
  /\ rmPc = "idle"
  /\ rmCalls = 0
  /\ rmResult = Undefined
  /\ rmRaised = FALSE
  /\ rrPc = "idle"
  /\ rrRecipe = Undefined
  /\ rrLimit = 0
  /\ rrCalls = 0
  /\ rrOutcome = "pending"
  /\ rrBody = Undefined
  /\ rrResult = Undefined
  /\ rrRaised = FALSE

RetryIdle ==
  /\ gmPc = "idle"
  /\ gmId = "m1"
  /\ gmN = 0
  /\ gmAttempts = 0
  /\ gmLog = <<>>
  /\ gmOutcomes = <<>>
  /\ gmBody = Undefined
  /\ gmResult = Undefined
  /\ gmRaised = FALSE

FanoutIdle ==
  /\ flPc = "idle"
  /\ flLetters = Undefined
  /\ flUrls = <<>>
  /\ flCall = <<>>
  /\ flOutcome = <<>>
  /\ flBody = <<>>
  /\ flPartial = <<>>
  /\ flFirst = 0
  /\ flResult = Undefined
  /\ flRaised = FALSE

RaceIdle ==
  /\ ingPc = "idle"
  /\ ingIngredient = ""
  /\ ingTimeoutMs = 0
  /\ ingElapsed = 0
  /\ ingFetch = "pending"
  /\ ingOutcome = "pending"
  /\ ingBody = Undefined
  /\ ingValue = Undefined
  /\ ingTimer = "pending"
  /\ ingWinner = "none"
  /\ ingResult = Undefined
  /\ ingRaised = FALSE
  /\ ingUnhandled = FALSE

\* The keys the modelled commands use.
CacheKeys ==
  {<<"ingredient", "egg">>, <<"search", "egg">>, <<"recipe", "m1">>,
   <<"letters", "ab">>, <<"letters", "bcd">>}

NoEntries == [k \in CacheKeys |-> Undefined]

SessionIdle ==
  /\ now = 0
  /\ cache = NoEntries
  /\ remoteCalls = 0
  /\ commands = 0
  /\ cfPc = "idle"
  /\ cfCmd = "none"
  /\ cfKey = <<"ingredient", "egg">>
  /\ cfProducerCalls = 0
  /\ cfResult = Undefined
  /\ cfRaised = FALSE
  /\ cfError = Undefined
  /\ cfStoredAt = 0
  /\ cfNowAtCall = 0
  /\ cfCacheAtCall = NoEntries
  /\ cfRemoteAtCall = 0
  /\ written = NoEntries
  /\ failed = {}

\* No recipe is being viewed.
ViewIdle ==
  /\ dvPc = "idle"
  /\ dvId = ""
  /\ dvAwaited = FALSE
  /\ bgPc = "none"

\* The application was not started: the api functions are called directly.
StartupIdle ==
  /\ stPc = "start"
  /\ favInit = "idle"
  /\ cacheInit = "idle"
  /\ evict = "idle"
  /\ evictRuns = 0
  /\ initialized = "none"
  /\ exitCode = -1
  /\ stMedium = NoEntries

\* What a failed attempt does next: start the one-second wait before a
\* retry, return null, or reject.
GmFail(kind, disposition) ==
  /\ gmOutcomes' = Append(gmOutcomes, kind)
  /\ gmPc' = IF disposition = "retry" THEN "backoff" ELSE "done"
  /\ gmLog' = IF disposition = "retry" THEN Append(gmLog, "wait") ELSE gmLog
  /\ gmResult' = IF disposition = "null" THEN Null ELSE gmResult
  /\ gmRaised' = (disposition = "throw")
  /\ UNCHANGED <<gmId, gmN, gmAttempts, gmBody>>

GetMealByIdCall(id, attempts) ==
  /\ gmPc = "idle"
  /\ gmPc' = "fetch"
  /\ gmId' = id
  /\ gmN' = attempts
  /\ gmAttempts' = attempts
  /\ gmLog' = <<"fetch">>
  /\ UNCHANGED <<gmOutcomes, gmBody, gmResult, gmRaised>>
  /\ UNCHANGED notRetry

GmFetchRejects ==
  /\ gmPc = "fetch"
  /\ GmFail("reject", CatchHandler(gmAttempts))
  /\ UNCHANGED notRetry

GmFetchNotOk ==
  /\ gmPc = "fetch"
  /\ GmFail("notok", NotOkHandler(gmAttempts))
  /\ UNCHANGED notRetry

GmFetchOk ==
  /\ gmPc = "fetch"
  /\ gmPc' = "json"
  /\ UNCHANGED <<gmId, gmN, gmAttempts, gmLog, gmOutcomes, gmBody, gmResult, gmRaised>>
  /\ UNCHANGED notRetry

GmJsonRejects ==
  /\ gmPc = "json"
  /\ GmFail("badjson", CatchHandler(gmAttempts))
  /\ UNCHANGED notRetry

GmJsonResolves(meals) ==
  /\ gmPc = "json"
  /\ gmPc' = "done"
  /\ gmOutcomes' = Append(gmOutcomes, "ok")
  /\ gmBody' = meals
  /\ gmResult' = FirstMealOrNull(meals)
  /\ UNCHANGED <<gmId, gmN, gmAttempts, gmLog, gmRaised>>
  /\ UNCHANGED notRetry

\* The attempts argument of the recursive call: attempts - 1.
RetryAttemptsKept(attempts) == attempts
RetryAttempts(attempts) == attempts - 1

\* The one-second wait is over: the recursive call, which fetches again.
GmBackoffElapses ==
  /\ gmPc = "backoff"
  /\ gmPc' = "fetch"
  /\ gmAttempts' = RetryAttempts(gmAttempts)
  /\ gmLog' = Append(gmLog, "fetch")
  /\ UNCHANGED <<gmId, gmN, gmOutcomes, gmBody, gmResult, gmRaised>>
  /\ UNCHANGED notRetry

RetryNext ==
  \/ \E id \in MealIdArgs, attempts \in -1..MaxAttempts : GetMealByIdCall(id, attempts)
  \/ GmFetchRejects
  \/ GmFetchNotOk
  \/ GmFetchOk
  \/ GmJsonRejects
  \/ \E meals \in BodyMeals : GmJsonResolves(meals)
  \/ GmBackoffElapses

RetryInit == ClientIdle /\ RetryIdle /\ FanoutIdle /\ RaceIdle /\ SessionIdle /\ ViewIdle /\ StartupIdle

SpecRetry == RetryInit /\ [][RetryNext]_vars

\* Every await of a call settles: the fetch, the decoding of the body, and
\* the one-second timer.
GmSettles ==
  \/ GmFetchRejects
  \/ GmFetchNotOk
  \/ GmFetchOk
  \/ GmJsonRejects
  \/ \E meals \in BodyMeals : GmJsonResolves(meals)
  \/ GmBackoffElapses

SpecRetryFair == RetryInit /\ [][RetryNext]_vars /\ WF_vars(GmSettles)

\* ------------------------------------------- searchMealsByFirstLetter
\* A JS string is a sequence of one-character strings.
LetterKeys == {<<"a">>, <<"b">>, <<"a", "b">>}

\* letter.charAt(0)
CharAt0(letter) == IF Len(letter) = 0 THEN "" ELSE letter[1]

\* The catch block of one letter's callback: log and return [].
LetterCatchRethrows(kind) == "rejected"
LetterCatch(kind) == "fulfilled"

\* results.flat(): the elements of an array element, any other element
\* as it is.
RECURSIVE Flat(_)
Flat(results) ==
  IF results = <<>> THEN <<>>
  ELSE (IF Head(results).t = "array" THEN Head(results).v ELSE <<Head(results)>>)
       \o Flat(Tail(results))

\* meal?.idMeal is truthy
HasIdMeal(meal) ==
  /\ meal.t = "object"
  /\ "idMeal" \in DOMAIN meal
  /\ meal.idMeal # ""

\* meal => meal?.idMeal ? [meal.idMeal, meal] : [null, null]
MapEntry(meal) ==
  IF HasIdMeal(meal) THEN <<Str(meal.idMeal), meal>> ELSE <<Null, Null>>

\* Map.prototype.set on a Map held as its entries in insertion order: a key
\* already present keeps its position and gets the new value.
MapSet(m, k, v) ==
  IF \E i \in 1..Len(m) : m[i][1] = k
  THEN [i \in 1..Len(m) |-> IF m[i][1] = k THEN <<k, v>> ELSE m[i]]
  ELSE Append(m, <<k, v>>)

\* new Map(entries)
RECURSIVE NewMap(_)
NewMap(entries) ==
  IF entries = <<>> THEN <<>>
  ELSE LET n == Len(entries)
       IN MapSet(NewMap(SubSeq(entries, 1, n - 1)), entries[n][1], entries[n][2])

\* .filter(meal => meal !== null)
RECURSIVE FilterNotNull(_)
FilterNotNull(s) ==
  IF s = <<>> THEN <<>>
  ELSE IF Head(s) = Null THEN FilterNotNull(Tail(s))
  ELSE <<Head(s)>> \o FilterNotNull(Tail(s))

\* Array.from(new Map(all.map(...)).values()).filter(...)
OnlyOne(all) ==
  LET m == NewMap([i \in 1..Len(all) |-> MapEntry(all[i])])
  IN FilterNotNull([i \in 1..Len(m) |-> m[i][2]])

\* info.meals of the body of one fan-out call, or of a call of a session:
\* null, no record, one record, two records of different ids, and two
\* records of one id.
LetterBodyMeals ==
  {Null, Arr(<<>>)} \cup {Arr(<<m>>) : m \in Meals}
    \cup {Arr(<<Meal("m1", "x"), Meal("m2", "x")>>),
          Arr(<<Meal("m1", "x"), Meal("m1", "y")>>)}

\* The letters arguments: arrays of strings, and a string (which has no map).
LetterArgs ==
  {Arr(s) : s \in SeqsUpTo(LetterKeys, MaxLetters)} \cup {Str(<<"a", "b">>)}

\* letters.map(async (letter) => ...) starts every fetch before the first
\* await; a letters value without map throws into the outer catch.
FanoutStart(letters) ==
  /\ flLetters' = letters
  /\ IF letters.t = "array"
     THEN /\ flPc' = "await"
          /\ flUrls' = [i \in 1..Len(letters.v) |-> CharAt0(letters.v[i])]
          /\ flCall' = [i \in 1..Len(letters.v) |-> "fetch"]
          /\ flOutcome' = [i \in 1..Len(letters.v) |-> "pending"]
          /\ flBody' = [i \in 1..Len(letters.v) |-> Undefined]
          /\ flPartial' = [i \in 1..Len(letters.v) |-> Undefined]
          /\ UNCHANGED flResult
     ELSE /\ flPc' = "done"
          /\ flResult' = Arr(<<>>)
          /\ UNCHANGED <<flUrls, flCall, flOutcome, flBody, flPartial>>
  /\ UNCHANGED <<flFirst, flRaised>>

\* Nothing of a call is left.
FanoutDrop ==
  /\ flPc' = "idle"
  /\ flLetters' = Undefined
  /\ flUrls' = <<>>
  /\ flCall' = <<>>
  /\ flOutcome' = <<>>
  /\ flBody' = <<>>
  /\ flPartial' = <<>>
  /\ flFirst' = 0
  /\ flResult' = Undefined
  /\ flRaised' = FALSE

SearchMealsByFirstLetterCall(letters) ==
  /\ flPc = "idle"
  /\ FanoutStart(letters)
  /\ UNCHANGED notFanout

\* The callback of call i returns: was it the first of the batch to?
FlReturns(i) == flFirst' = IF flFirst = 0 THEN i ELSE flFirst

\* A callback ends in its catch block.
FlCaught(i, kind) ==
  /\ flCall' = [flCall EXCEPT ![i] = LetterCatch(kind)]
  /\ flOutcome' = [flOutcome EXCEPT ![i] = kind]
  /\ flPartial' = [flPartial EXCEPT ![i] = Arr(<<>>)]
  /\ FlReturns(i)
  /\ UNCHANGED <<flPc, flLetters, flUrls, flBody, flResult, flRaised>>

FlFetchRejects(i) ==
  /\ flPc = "await"
  /\ flCall[i] = "fetch"
  /\ FlCaught(i, "reject")
  /\ UNCHANGED notFanout

\* !response.ok: log and return [].
FlFetchNotOk(i) ==
  /\ flPc = "await"
  /\ flCall[i] = "fetch"
  /\ flCall' = [flCall EXCEPT ![i] = "fulfilled"]
  /\ flOutcome' = [flOutcome EXCEPT ![i] = "notok"]
  /\ flPartial' = [flPartial EXCEPT ![i] = Arr(<<>>)]
  /\ FlReturns(i)
  /\ UNCHANGED <<flPc, flLetters, flUrls, flBody, flResult, flRaised>>
  /\ UNCHANGED notFanout

FlFetchOk(i) ==
  /\ flPc = "await"
  /\ flCall[i] = "fetch"
  /\ flCall' = [flCall EXCEPT ![i] = "json"]
  /\ UNCHANGED <<flPc, flLetters, flUrls, flOutcome, flBody, flPartial, flFirst,
                 flResult, flRaised>>
  /\ UNCHANGED notFanout

FlJsonRejects(i) ==
  /\ flPc = "await"
  /\ flCall[i] = "json"
  /\ FlCaught(i, "badjson")
  /\ UNCHANGED notFanout

\* return info.meals || []
FlJsonResolves(i, meals) ==
  /\ flPc = "await"
  /\ flCall[i] = "json"
  /\ flCall' = [flCall EXCEPT ![i] = "fulfilled"]
  /\ flOutcome' = [flOutcome EXCEPT ![i] = "ok"]
  /\ flBody' = [flBody EXCEPT ![i] = meals]
  /\ flPartial' = [flPartial EXCEPT ![i] = OrEmpty(meals)]
  /\ FlReturns(i)
  /\ UNCHANGED <<flPc, flLetters, flUrls, flResult, flRaised>>
  /\ UNCHANGED notFanout

\* Promise.all(map) settles: fulfilled once every promise of map is,
\* rejected as soon as one is.
PromiseAnySettled(calls) ==
  \E i \in 1..Len(calls) : calls[i] \in {"fulfilled", "rejected"}
PromiseAllSettled(calls) ==
  \/ \E i \in 1..Len(calls) : calls[i] = "rejected"
  \/ \A i \in 1..Len(calls) : calls[i] = "fulfilled"

\* The array Promise.all fulfils with holds each promise's value at the
\* position of the promise in map, whichever returned first.
PromiseAllValuesFirstReturnedFirst(partials, first) ==
  IF first = 0 THEN partials
  ELSE <<partials[first]>> \o
       [k \in 1..(Len(partials) - 1) |-> partials[IF k < first THEN k ELSE k + 1]]
PromiseAllValues(partials, first) == partials

\* await Promise.all(map) is over: the merged list, or [] from the outer
\* catch when Promise.all rejected.
FlPromiseAllSettles ==
  /\ flPc = "await"
  /\ PromiseAllSettled(flCall)
  /\ flPc' = "done"
  /\ flResult' = IF \E i \in 1..Len(flCall) : flCall[i] = "rejected"
                 THEN Arr(<<>>)
                 ELSE Arr(OnlyOne(Flat(PromiseAllValues(flPartial, flFirst))))
  /\ UNCHANGED <<flLetters, flUrls, flCall, flOutcome, flBody, flPartial, flFirst,
                 flRaised>>
  /\ UNCHANGED notFanout

FanoutNext ==
  \/ \E letters \in LetterArgs : SearchMealsByFirstLetterCall(letters)
  \/ \E i \in 1..Len(flCall) : FlFetchRejects(i)
  \/ \E i \in 1..Len(flCall) : FlFetchNotOk(i)
  \/ \E i \in 1..Len(flCall) : FlFetchOk(i)
  \/ \E i \in 1..Len(flCall) : FlJsonRejects(i)
  \/ \E i \in 1..Len(flCall), meals \in LetterBodyMeals : FlJsonResolves(i, meals)
  \/ FlPromiseAllSettles

FanoutInit == ClientIdle /\ RetryIdle /\ FanoutIdle /\ RaceIdle /\ SessionIdle /\ ViewIdle /\ StartupIdle

SpecFanout == FanoutInit /\ [][FanoutNext]_vars

\* ----------------------------------------------- getMealsByIngredient
Ingredients == {"egg", "Egg"}

\* timeoutMs = 5000, the default of getMealsByIngredient
DefaultTimeoutMs == 5000

\* The clock of a call counts ticks of half the default timeout.
TickMs == DefaultTimeoutMs \div 2

TimeoutArgs == {k * TickMs : k \in 0..MaxTimeoutTicks}

Error(message) == [t |-> "error", message |-> message]

\* new Error("cant found recipe on time"), what the timer rejects with
TimeoutError == Error("cant found recipe on time")

\* The catch block around the race: the timer's error gives the timeout
\* message, any other error the generic one.
RaceCatchReturnsEmpty(error) == Arr(<<>>)
RaceCatch(error) ==
  IF error.t = "error" /\ error.message = "cant found recipe on time"
  THEN Str("took too long")
  ELSE Str("An unexpected error has been occurred")

\* The !result.ok branch of the then callback: log and return [].
NotOkValue == Arr(<<>>)

\* A call starts the fetch and the timer, both outstanding.
RaceStart(ingredient, timeoutMs) ==
  /\ ingPc' = "race"
  /\ ingIngredient' = ingredient
  /\ ingTimeoutMs' = timeoutMs
  /\ ingElapsed' = 0
  /\ ingFetch' = "pending"
  /\ ingOutcome' = "pending"
  /\ ingBody' = Undefined
  /\ ingValue' = Undefined
  /\ ingTimer' = "pending"
  /\ ingWinner' = "none"
  /\ ingResult' = Undefined
  /\ ingRaised' = FALSE
  /\ ingUnhandled' = FALSE

\* Nothing of a call is left.
RaceDrop ==
  /\ ingPc' = "idle"
  /\ ingIngredient' = ""
  /\ ingTimeoutMs' = 0
  /\ ingElapsed' = 0
  /\ ingFetch' = "pending"
  /\ ingOutcome' = "pending"
  /\ ingBody' = Undefined
  /\ ingValue' = Undefined
  /\ ingTimer' = "pending"
  /\ ingWinner' = "none"
  /\ ingResult' = Undefined
  /\ ingRaised' = FALSE
  /\ ingUnhandled' = FALSE

GetMealsByIngredientCall(ingredient, timeoutMs) ==
  /\ ingPc = "idle"
  /\ RaceStart(ingredient, timeoutMs)
  /\ UNCHANGED notRace

\* Time passes while one of the two is outstanding; a due timer fires
\* before the clock moves on.
IngTick ==
  /\ ingPc \in {"race", "done"}
  /\ ingElapsed < MaxElapsed
  /\ ingFetch \in {"pending", "json"} \/ ingTimer = "pending"
  /\ ingTimer = "fired" \/ ingElapsed * TickMs < ingTimeoutMs
  /\ ingElapsed' = ingElapsed + 1
  /\ UNCHANGED <<ingPc, ingIngredient, ingTimeoutMs, ingFetch, ingOutcome, ingBody,
                 ingValue, ingTimer, ingWinner, ingResult, ingRaised, ingUnhandled>>
  /\ UNCHANGED notRace

\* Promise.race([promise, time]) subscribes to both of its promises, so a
\* rejection of either has a handler.
RaceSubscribed == {"fetch", "timer"}

\* The promise of Promise.race settles once, with the first settlement it
\* is told of: what the awaiting function ends with after a settlement.
RaceSlotLastWins(pc, current, settled) == settled
RaceSlot(pc, current, settled) == IF pc = "race" THEN settled ELSE current

\* The fetch promise settles; when the race is still open it decides the
\* call, otherwise the settlement is dropped.
IngFetchSettles(status, outcome, value) ==
  /\ ingFetch' = status
  /\ ingOutcome' = outcome
  /\ ingValue' = value
  /\ ingPc' = "done"
  /\ ingWinner' = IF ingPc = "race" THEN "fetch" ELSE ingWinner
  /\ ingResult' = RaceSlot(ingPc, ingResult,
                           IF status = "fulfilled" THEN value ELSE RaceCatch(value))
  /\ ingUnhandled' = (ingUnhandled \/ (status = "rejected" /\ "fetch" \notin RaceSubscribed))
  /\ UNCHANGED <<ingIngredient, ingTimeoutMs, ingElapsed, ingTimer, ingRaised>>

IngFetchRejects ==
  /\ ingPc \in {"race", "done"}
  /\ ingFetch = "pending"
  /\ IngFetchSettles("rejected", "reject", Error("fetch failed"))
  /\ UNCHANGED ingBody
  /\ UNCHANGED notRace

IngFetchNotOk ==
  /\ ingPc \in {"race", "done"}
  /\ ingFetch = "pending"
  /\ IngFetchSettles("fulfilled", "notok", NotOkValue)
  /\ UNCHANGED ingBody
  /\ UNCHANGED notRace

IngFetchOk ==
  /\ ingPc \in {"race", "done"}
  /\ ingFetch = "pending"
  /\ ingFetch' = "json"
  /\ UNCHANGED <<ingPc, ingIngredient, ingTimeoutMs, ingElapsed, ingOutcome, ingBody,
                 ingValue, ingTimer, ingWinner, ingResult, ingRaised, ingUnhandled>>
  /\ UNCHANGED notRace

IngJsonRejects ==
  /\ ingPc \in {"race", "done"}
  /\ ingFetch = "json"
  /\ IngFetchSettles("rejected", "badjson", Error("Unexpected token"))
  /\ UNCHANGED ingBody
  /\ UNCHANGED notRace

\* return info.meals || []
IngJsonResolves(meals) ==
  /\ ingPc \in {"race", "done"}
  /\ ingFetch = "json"
  /\ IngFetchSettles("fulfilled", "ok", OrEmpty(meals))
  /\ ingBody' = meals
  /\ UNCHANGED notRace

\* setTimeout(() => reject(new Error(...)), timeoutMs)
IngTimerFires ==
  /\ ingPc \in {"race", "done"}
  /\ ingTimer = "pending"
  /\ ingElapsed * TickMs >= ingTimeoutMs
  /\ ingTimer' = "fired"
  /\ ingPc' = "done"
  /\ ingWinner' = IF ingPc = "race" THEN "timer" ELSE ingWinner
  /\ ingResult' = RaceSlot(ingPc, ingResult, RaceCatch(TimeoutError))
  /\ ingUnhandled' = (ingUnhandled \/ "timer" \notin RaceSubscribed)
  /\ UNCHANGED <<ingIngredient, ingTimeoutMs, ingElapsed, ingFetch, ingOutcome, ingBody,
                 ingValue, ingRaised>>
  /\ UNCHANGED notRace

RaceNext ==
  \/ \E ingredient \in Ingredients, timeoutMs \in TimeoutArgs :
       GetMealsByIngredientCall(ingredient, timeoutMs)
  \/ IngTick
  \/ IngFetchRejects
  \/ IngFetchNotOk
  \/ IngFetchOk
  \/ IngJsonRejects
  \/ \E meals \in BodyMeals : IngJsonResolves(meals)
  \/ IngTimerFires

RaceInit == ClientIdle /\ RetryIdle /\ FanoutIdle /\ RaceIdle /\ SessionIdle /\ ViewIdle /\ StartupIdle

SpecRace == RaceInit /\ [][RaceNext]_vars

\* ------------------------------------ getCachedOrFetch and its callers
Entry(value, storedAt, ttl) ==
  [t |-> "entry", value |-> value, storedAt |-> storedAt, ttl |-> ttl]

\* An entry is served while now - storedAt <= ttl; an absent one is a miss.
IsFresh(entry, t) == entry # Undefined /\ t - entry.storedAt <= entry.ttl

\* put(key, value, ttl): overwrites, stamped with the current time.
CachePutNothing(c, key, value, ttl, t) == c
CachePut(c, key, value, ttl, t) == [c EXCEPT ![key] = Entry(value, t, ttl)]

\* The store after the producer failed: nothing is written.
CacheAfterFailureStoresNull(c, key, t) == [c EXCEPT ![key] = Entry(Null, t, DefaultTtl)]
CacheAfterFailure(c, key, t) == c

\* String.prototype.toLowerCase on the terms of the model
ToLowerCase(term) == IF term = "Egg" THEN "egg" ELSE term

\* `ingredient_${ingredient.toLowerCase()}`
IngredientKey(ingredient) == <<"ingredient", ToLowerCase(ingredient)>>

\* `search_${query.toLowerCase()}`
SearchKey(query) == <<"search", ToLowerCase(query)>>

Queries == {"egg", "Egg"}

\* response.json() on the promise api.searchMealsByName(query) returned
JsonTypeError == [t |-> "error", message |-> "response.json is not a function"]

\* The process has not ended.
Running == exitCode = -1

\* showMainMenu is at its prompt: the command it awaited is over, and so is
\* a recipe view it awaited.
AtMenu ==
  /\ Running
  /\ cfPc = "idle"
  /\ ~(dvPc # "idle" /\ dvAwaited)

\* getCachedOrFetch(key, producer) up to its first await: a fresh entry is
\* returned, otherwise the producer is invoked.
CfCall(cmd, key) ==
  /\ AtMenu
  /\ commands < MaxCommands
  /\ commands' = commands + 1
  /\ cfCmd' = cmd
  /\ cfKey' = key
  /\ cfNowAtCall' = now
  /\ cfCacheAtCall' = cache
  /\ cfRemoteAtCall' = remoteCalls
  /\ cfRaised' = FALSE
  /\ cfError' = Undefined
  /\ cfPc' = IF IsFresh(cache[key], now) THEN "done" ELSE "producing"
  /\ cfProducerCalls' = IF IsFresh(cache[key], now) THEN 0 ELSE 1
  /\ cfResult' = IF IsFresh(cache[key], now) THEN cache[key].value ELSE Undefined
  /\ UNCHANGED <<now, cache, cfStoredAt, written, failed>>

\* The producer is handed over as an async function: its body runs when the
\* coordinator invokes it, not when the command calls the coordinator.
ProducerBodyRunsAtCall(invoked) == TRUE
ProducerBodyRuns(invoked) == invoked

\* searchByIngredient: the producer is api.getMealsByIngredient(ingredient),
\* which makes its remote call and starts its timer.
SearchByIngredient(ingredient) ==
  /\ CfCall("searchByIngredient", IngredientKey(ingredient))
  /\ IF ProducerBodyRuns(~IsFresh(cache[IngredientKey(ingredient)], now))
     THEN /\ RaceStart(ingredient, DefaultTimeoutMs)
          /\ remoteCalls' = remoteCalls + 1
     ELSE UNCHANGED <<raceVars, remoteCalls>>
  /\ UNCHANGED <<clientVars, viewVars, retryVars, fanoutVars, startupVars>>

\* searchRecipes: the producer calls api.searchMealsByName(query), which
\* starts its fetch, and then response.json() on the promise it got.
SearchRecipes(query) ==
  /\ CfCall("searchRecipes", SearchKey(query))
  /\ remoteCalls' = IF ProducerBodyRuns(~IsFresh(cache[SearchKey(query)], now))
                    THEN remoteCalls + 1 ELSE remoteCalls
  /\ UNCHANGED notSession

\* async () => { return await api.getMealsByIngredient(ingredient) }: the
\* producer resolves with what the api function resolved with, a list or a
\* message alike.
IngredientProducerListsOnly(value) == IF value.t = "array" THEN value ELSE Arr(<<>>)
IngredientProducer(value) == value

\* The producer of searchByIngredient resolved: the value is stored under
\* the key with the default TTL and returned.
CfProducerResolves ==
  /\ cfPc = "producing"
  /\ cfCmd = "searchByIngredient"
  /\ ingPc = "done"
  /\ cfPc' = "done"
  /\ cache' = CachePut(cache, cfKey, IngredientProducer(ingResult), DefaultTtl, now)
  /\ cfStoredAt' = now
  /\ cfResult' = IngredientProducer(ingResult)
  /\ UNCHANGED <<now, remoteCalls, commands, cfCmd, cfKey, cfProducerCalls, cfRaised,
                 cfError, cfNowAtCall, cfCacheAtCall, cfRemoteAtCall, written, failed>>
  /\ UNCHANGED notSession

\* The letters typed at the prompt of exploreByFirstLetter.
LetterInputs == {<<"b", "a">>, <<"a", "B", "a">>, <<"d", "c", "b", "a">>}

\* letters.toLowerCase(), character by character
LowerChars(s) == [i \in 1..Len(s) |-> IF s[i] = "B" THEN "b" ELSE s[i]]

\* Array.from(new Set(s)): the first occurrence of every character, in order
RECURSIVE FromSet(_)
FromSet(s) ==
  IF s = <<>> THEN <<>>
  ELSE LET r == FromSet(SubSeq(s, 1, Len(s) - 1))
       IN IF \E i \in 1..Len(r) : r[i] = s[Len(s)] THEN r ELSE Append(r, s[Len(s)])

\* .slice(0, 3)
LetterLimit == 3

Slice(s, n) == SubSeq(s, 1, IF Len(s) < n THEN Len(s) ELSE n)

\* Array.from(new Set(letters.toLowerCase())).slice(0, 3)
UniqueLetters(letters) == Slice(FromSet(LowerChars(letters)), LetterLimit)

\* uniqueLetters.sort(), for letters that differ from one another
Alphabet == <<"a", "b", "c", "d">>

Sort(s) == SelectSeq(Alphabet, LAMBDA c : \E i \in 1..Len(s) : s[i] = c)

\* .join('')
RECURSIVE Join(_)
Join(s) == IF s = <<>> THEN "" ELSE Head(s) \o Join(Tail(s))

\* `letters_${uniqueLetters.sort().join('')}` as the key of the store
LettersKey(uniqueLetters) == <<"letters", Join(Sort(uniqueLetters))>>

\* api.searchMealsByFirstLetter(key): the argument is the key, a string
ExploreProducerArg(uniqueLetters) ==
  Str(<<"l", "e", "t", "t", "e", "r", "s", "_">> \o Sort(uniqueLetters))

\* exploreByFirstLetter: the producer calls api.searchMealsByFirstLetter,
\* which starts one fetch per element it maps over.
ExploreByFirstLetter(letters) ==
  /\ CfCall("exploreByFirstLetter", LettersKey(UniqueLetters(letters)))
  /\ IF ProducerBodyRuns(~IsFresh(cache[LettersKey(UniqueLetters(letters))], now))
     THEN /\ FanoutStart(ExploreProducerArg(UniqueLetters(letters)))
          /\ remoteCalls' = remoteCalls + Len(flUrls')
     ELSE UNCHANGED <<fanoutVars, remoteCalls>>
  /\ UNCHANGED <<clientVars, viewVars, retryVars, raceVars, startupVars>>

\* The producer of exploreByFirstLetter resolved with what
\* searchMealsByFirstLetter resolved with: the value is stored under the key
\* with the default TTL and returned.
CfLettersProducerResolves ==
  /\ cfPc = "producing"
  /\ cfCmd = "exploreByFirstLetter"
  /\ flPc = "done"
  /\ ~flRaised
  /\ cfPc' = "done"
  /\ cache' = CachePut(cache, cfKey, flResult, DefaultTtl, now)
  /\ cfStoredAt' = now
  /\ cfResult' = flResult
  /\ UNCHANGED <<now, remoteCalls, commands, cfCmd, cfKey, cfProducerCalls, cfRaised,
                 cfError, cfNowAtCall, cfCacheAtCall, cfRemoteAtCall, written, failed>>
  /\ UNCHANGED notSession

\* The producer of searchRecipes rejected with its TypeError: the failure
\* goes to the caller as it is.
CfProducerRejects ==
  /\ cfPc = "producing"
  /\ cfCmd = "searchRecipes"
  /\ cfPc' = "done"
  /\ cache' = CacheAfterFailure(cache, cfKey, now)
  /\ cfRaised' = TRUE
  /\ cfError' = JsonTypeError
  /\ UNCHANGED <<now, remoteCalls, commands, cfCmd, cfKey, cfProducerCalls, cfResult,
                 cfStoredAt, cfNowAtCall, cfCacheAtCall, cfRemoteAtCall, written, failed>>
  /\ UNCHANGED notSession

\* The locals of a call of getCachedOrFetch are gone.
CfDrop ==
  /\ cfPc' = "idle"
  /\ cfCmd' = "none"
  /\ cfKey' = <<"ingredient", "egg">>
  /\ cfProducerCalls' = 0
  /\ cfResult' = Undefined
  /\ cfRaised' = FALSE
  /\ cfError' = Undefined
  /\ cfStoredAt' = 0
  /\ cfNowAtCall' = 0
  /\ cfCacheAtCall' = NoEntries
  /\ cfRemoteAtCall' = 0

\* A command returns: what its call of getCachedOrFetch did is on record,
\* its locals are gone, and so is what is left of its race (the loser's
\* settlement is dropped) or of its fan-out.
CfReturn ==
  /\ cfPc = "done"
  /\ written' = IF cfProducerCalls = 1 /\ ~cfRaised
                THEN [written EXCEPT ![cfKey] = [value |-> cfResult, at |-> cfStoredAt]]
                ELSE written
  /\ failed' = IF cfRaised THEN failed \cup {cfKey} ELSE failed \ {cfKey}
  /\ CfDrop
  /\ RaceDrop
  /\ FanoutDrop
  /\ UNCHANGED <<now, cache, remoteCalls, commands>>
  /\ UNCHANGED <<clientVars, retryVars, startupVars>>

\* The command is over (its result shown and no recipe picked from it, or
\* its error logged by its catch block) and the menu is back.
CommandEnds ==
  /\ CfReturn
  /\ UNCHANGED viewVars

\* `recipe_${recipeId}`
RecipeKey(recipeId) == <<"recipe", recipeId>>

\* cache.get on a key, also one the store never held
CacheGet(c, key) == IF key \in DOMAIN c THEN c[key] ELSE Undefined

\* viewRecipeDetails(recipeId) up to its first await: getCachedOrFetch
\* returns a fresh recipe_<id> entry, or invokes the producer, which calls
\* api.getMealById and so makes a remote call.
DvStart(recipeId, awaited) ==
  /\ dvPc' = IF IsFresh(CacheGet(cache, RecipeKey(recipeId)), now)
             THEN "favorites" ELSE "producing"
  /\ dvId' = recipeId
  /\ dvAwaited' = awaited
  /\ UNCHANGED bgPc

\* The view is over.
DvDrop ==
  /\ dvPc' = "idle"
  /\ dvId' = ""
  /\ dvAwaited' = FALSE

\* The ids a command can hand to viewRecipeDetails: the idMeal of a listed
\* record (searchByIngredient), or what the user types at the prompt of
\* viewRecipeDetails, which searchRecipes and exploreByFirstLetter reach by
\* passing the undefined id field of the record.
PickedIds(cmd, list) ==
  IF cmd = "searchByIngredient" THEN {list[i].idMeal : i \in 1..Len(list)}
  ELSE MealIdArgs

\* The user picks a record of the list a search showed: the command calls
\* viewRecipeDetails without awaiting it and returns, so the menu is back
\* while the view awaits its getCachedOrFetch.
CommandEndsStartsDetail(recipeId) ==
  /\ cfCmd \in {"searchByIngredient", "searchRecipes", "exploreByFirstLetter"}
  /\ ~cfRaised
  /\ cfResult.t = "array"
  /\ Len(cfResult.v) > 0
  /\ recipeId \in PickedIds(cfCmd, cfResult.v)
  /\ dvPc = "idle"
  /\ CfReturn
  /\ DvStart(recipeId, FALSE)

\* Menu choice 2: showMainMenu awaits viewRecipeDetails(), which asks for
\* the id.
ViewRecipeDetailsCommand(recipeId) ==
  /\ AtMenu
  /\ dvPc = "idle"
  /\ commands < MaxCommands
  /\ commands' = commands + 1
  /\ DvStart(recipeId, TRUE)
  /\ UNCHANGED <<now, cache, remoteCalls, cfPc, cfCmd, cfKey, cfProducerCalls, cfResult,
                 cfRaised, cfError, cfStoredAt, cfNowAtCall, cfCacheAtCall,
                 cfRemoteAtCall, written, failed>>
  /\ UNCHANGED <<clientVars, retryVars, fanoutVars, raceVars, startupVars>>

\* The producer of viewRecipeDetails got the record (or null) from
\* api.getMealById and calls response.json() on it, a TypeError: the
\* producer rejects, nothing is stored, and the catch block of the view
\* logs the error.
DvProducerRejects ==
  /\ Running
  /\ dvPc = "producing"
  /\ DvDrop
  /\ UNCHANGED bgPc
  /\ UNCHANGED sessionVars
  /\ UNCHANGED <<clientVars, retryVars, fanoutVars, raceVars, startupVars>>

\* The view shows the cached recipe, asks about the favorites, and starts
\* fetch(api.getRelatedRecipes(recipe.strCategory)).then(...).then(...),
\* a chain with no catch that nothing awaits; then it returns.
DvShows ==
  /\ Running
  /\ dvPc = "favorites"
  /\ DvDrop
  /\ bgPc' = "pending"
  /\ UNCHANGED sessionVars
  /\ UNCHANGED <<clientVars, retryVars, fanoutVars, raceVars, startupVars>>

\* The process ends with the given code: nothing that was in flight is left.
ProcessEnds(code) ==
  /\ stPc' = "exited"
  /\ exitCode' = code
  /\ CfDrop
  /\ RaceDrop
  /\ DvDrop
  /\ FanoutDrop
  /\ UNCHANGED <<favInit, cacheInit, evict, evictRuns, initialized, stMedium>>
  /\ UNCHANGED <<now, cache, remoteCalls, commands, written, failed>>
  /\ UNCHANGED <<clientVars, retryVars>>

\* fetch is given the promise getRelatedRecipes returned, which is no URL:
\* it rejects, the chain rejects with it, and no handler is attached, so
\* the runtime ends the process with code 1.
BackgroundRejects ==
  /\ Running
  /\ bgPc = "pending"
  /\ bgPc' = "rejected"
  /\ ProcessEnds(1)

\* Menu choice 7: process.exit(0).
ExitChoice ==
  /\ AtMenu
  /\ ProcessEnds(0)
  /\ UNCHANGED bgPc

\* Time passes between commands and while a producer is awaited.
SessionTick ==
  /\ Running
  /\ cfPc \in {"idle", "producing"}
  /\ now < MaxNow
  /\ now' = now + 1
  /\ UNCHANGED <<cache, remoteCalls, commands, cfPc, cfCmd, cfKey, cfProducerCalls,
                 cfResult, cfRaised, cfError, cfStoredAt, cfNowAtCall, cfCacheAtCall,
                 cfRemoteAtCall, written, failed>>
  /\ UNCHANGED notSession

\* A stored recipe as viewRecipeDetails reads it: an object with a meals list.
RecipeBody(meal) == [t |-> "object", meals |-> Arr(<<meal>>)]

\* The store as loaded at startup: empty, or holding an entry for a search,
\* or one for a recipe.
LoadedStores ==
  {NoEntries,
   [NoEntries EXCEPT ![<<"search", "egg">>] = Entry(Arr(<<Meal("m2", "x")>>), 0, DefaultTtl)],
   [NoEntries EXCEPT ![<<"recipe", "m1">>] =
      Entry(RecipeBody(Meal("m1", "x")), 0, DefaultTtl)]}

\* A session starts at the menu, after a startup that succeeded.
SessionInit ==
  /\ ClientIdle /\ RetryIdle /\ FanoutIdle /\ RaceIdle /\ ViewIdle
  /\ stPc = "menu"
  /\ favInit = "resolved"
  /\ cacheInit = "resolved"
  /\ evict = "resolved"
  /\ evictRuns = 1
  /\ initialized = "true"
  /\ exitCode = -1
  /\ stMedium = NoEntries
  /\ now = 0
  /\ cache \in LoadedStores
  /\ remoteCalls = 0
  /\ commands = 0
  /\ cfPc = "idle"
  /\ cfCmd = "none"
  /\ cfKey = <<"ingredient", "egg">>
  /\ cfProducerCalls = 0
  /\ cfResult = Undefined
  /\ cfRaised = FALSE
  /\ cfError = Undefined
  /\ cfStoredAt = 0
  /\ cfNowAtCall = 0
  /\ cfCacheAtCall = NoEntries
  /\ cfRemoteAtCall = 0
  /\ written = NoEntries
  /\ failed = {}

SessionNext ==
  \/ \E ingredient \in Ingredients : SearchByIngredient(ingredient)
  \/ \E query \in Queries : SearchRecipes(query)
  \/ \E letters \in LetterInputs : ExploreByFirstLetter(letters)
  \/ CfProducerResolves
  \/ CfLettersProducerResolves
  \/ CfProducerRejects
  \/ CommandEnds
  \/ \E recipeId \in MealIdArgs : CommandEndsStartsDetail(recipeId)
  \/ \E recipeId \in MealIdArgs : ViewRecipeDetailsCommand(recipeId)
  \/ DvProducerRejects
  \/ DvShows
  \/ BackgroundRejects
  \/ ExitChoice
  \/ SessionTick
  \/ IngTick
  \/ IngFetchRejects
  \/ IngFetchNotOk
  \/ IngFetchOk
  \/ IngJsonRejects
  \/ \E meals \in LetterBodyMeals : IngJsonResolves(meals)
  \/ IngTimerFires

SpecSession == SessionInit /\ [][SessionNext]_vars

\* ------------------------------------------------- initialize and main
\* await Promise.all([...]) precedes cache.clearExpiredCache(): eviction
\* starts once both initializations have resolved.
MayStartEvictionEarly(fav, cacheI) == fav = "resolved"
MayStartEviction(fav, cacheI) == fav = "resolved" /\ cacheI = "resolved"

\* clearExpiredCache: the entries past their TTL are removed.
EvictExpired(c, t) ==
  [k \in CacheKeys |-> IF c[k] # Undefined /\ t - c[k].storedAt > c[k].ttl
                        THEN Undefined ELSE c[k]]

\* What the medium can hold for a key: nothing, or an entry of an earlier run.
MediumEntries(k) ==
  {Undefined} \cup {Entry(Arr(<<Meal("m2", "x")>>), at, DefaultTtl) : at \in 0..1}

Media == {m \in [CacheKeys -> UNION {MediumEntries(k) : k \in CacheKeys}] :
            \A k \in CacheKeys : m[k] \in MediumEntries(k)}

\* main calls initialize(), which starts both initializations at once.
Main ==
  /\ stPc = "start"
  /\ stPc' = "awaitAll"
  /\ favInit' = "pending"
  /\ cacheInit' = "pending"
  /\ UNCHANGED <<evict, evictRuns, initialized, exitCode, stMedium>>
  /\ UNCHANGED <<clientVars, viewVars, retryVars, fanoutVars, raceVars, sessionVars>>

FavInitResolves ==
  /\ stPc = "awaitAll"
  /\ favInit = "pending"
  /\ favInit' = "resolved"
  /\ UNCHANGED <<stPc, cacheInit, evict, evictRuns, initialized, exitCode, stMedium>>
  /\ UNCHANGED <<clientVars, viewVars, retryVars, fanoutVars, raceVars, sessionVars>>

FavInitRejects ==
  /\ stPc = "awaitAll"
  /\ favInit = "pending"
  /\ favInit' = "rejected"
  /\ UNCHANGED <<stPc, cacheInit, evict, evictRuns, initialized, exitCode, stMedium>>
  /\ UNCHANGED <<clientVars, viewVars, retryVars, fanoutVars, raceVars, sessionVars>>

\* initializeCache loaded the persisted entries.
CacheInitLoads ==
  /\ stPc \in {"awaitAll", "evicting"}
  /\ cacheInit = "pending"
  /\ cacheInit' = "resolved"
  /\ cache' = stMedium
  /\ UNCHANGED <<now, remoteCalls, commands, cfPc, cfCmd, cfKey, cfProducerCalls,
                 cfResult, cfRaised, cfError, cfStoredAt, cfNowAtCall, cfCacheAtCall,
                 cfRemoteAtCall, written, failed>>
  /\ UNCHANGED <<stPc, favInit, evict, evictRuns, initialized, exitCode, stMedium>>
  /\ UNCHANGED <<clientVars, viewVars, retryVars, fanoutVars, raceVars>>

\* initializeCache found the medium missing or corrupt: it starts empty.
CacheInitStartsEmpty ==
  /\ stPc \in {"awaitAll", "evicting"}
  /\ cacheInit = "pending"
  /\ cacheInit' = "resolved"
  /\ cache' = NoEntries
  /\ UNCHANGED <<now, remoteCalls, commands, cfPc, cfCmd, cfKey, cfProducerCalls,
                 cfResult, cfRaised, cfError, cfStoredAt, cfNowAtCall, cfCacheAtCall,
                 cfRemoteAtCall, written, failed>>
  /\ UNCHANGED <<stPc, favInit, evict, evictRuns, initialized, exitCode, stMedium>>
  /\ UNCHANGED <<clientVars, viewVars, retryVars, fanoutVars, raceVars>>

CacheInitRejects ==
  /\ stPc \in {"awaitAll", "evicting"}
  /\ cacheInit = "pending"
  /\ cacheInit' = "rejected"
  /\ UNCHANGED <<stPc, favInit, evict, evictRuns, initialized, exitCode, stMedium>>
  /\ UNCHANGED <<clientVars, viewVars, retryVars, fanoutVars, raceVars, sessionVars>>

\* Promise.all fulfilled: initialize goes on to await clearExpiredCache().
InitializeEvicts ==
  /\ stPc = "awaitAll"
  /\ favInit # "rejected" /\ cacheInit # "rejected"
  /\ MayStartEviction(favInit, cacheInit)
  /\ stPc' = "evicting"
  /\ evict' = "pending"
  /\ evictRuns' = evictRuns + 1
  /\ UNCHANGED <<favInit, cacheInit, initialized, exitCode, stMedium>>
  /\ UNCHANGED <<clientVars, viewVars, retryVars, fanoutVars, raceVars, sessionVars>>

\* Promise.all rejected with the first rejection: the catch block returns
\* false, and main exits with code 1.
InitializeFails ==
  /\ stPc = "awaitAll"
  /\ favInit = "rejected" \/ cacheInit = "rejected"
  /\ stPc' = "exited"
  /\ initialized' = "false"
  /\ exitCode' = 1
  /\ UNCHANGED <<favInit, cacheInit, evict, evictRuns, stMedium>>
  /\ UNCHANGED <<clientVars, viewVars, retryVars, fanoutVars, raceVars, sessionVars>>

\* clearExpiredCache resolved: initialize returns true, main shows the menu.
EvictResolves ==
  /\ stPc = "evicting"
  /\ evict = "pending"
  /\ evict' = "resolved"
  /\ cache' = EvictExpired(cache, now)
  /\ stPc' = "menu"
  /\ initialized' = "true"
  /\ UNCHANGED <<now, remoteCalls, commands, cfPc, cfCmd, cfKey, cfProducerCalls,
                 cfResult, cfRaised, cfError, cfStoredAt, cfNowAtCall, cfCacheAtCall,
                 cfRemoteAtCall, written, failed>>
  /\ UNCHANGED <<favInit, cacheInit, evictRuns, exitCode, stMedium>>
  /\ UNCHANGED <<clientVars, viewVars, retryVars, fanoutVars, raceVars>>

\* clearExpiredCache rejected: the catch block returns false, main exits.
EvictRejects ==
  /\ stPc = "evicting"
  /\ evict = "pending"
  /\ evict' = "rejected"
  /\ stPc' = "exited"
  /\ initialized' = "false"
  /\ exitCode' = 1
  /\ UNCHANGED <<favInit, cacheInit, evictRuns, stMedium>>
  /\ UNCHANGED <<clientVars, viewVars, retryVars, fanoutVars, raceVars, sessionVars>>

StartupInit ==
  /\ ClientIdle /\ RetryIdle /\ FanoutIdle /\ RaceIdle /\ ViewIdle
  /\ now \in 1..MaxNow
  /\ cache = NoEntries
  /\ remoteCalls = 0
  /\ commands = 0
  /\ cfPc = "idle"
  /\ cfCmd = "none"
  /\ cfKey = <<"ingredient", "egg">>
  /\ cfProducerCalls = 0
  /\ cfResult = Undefined
  /\ cfRaised = FALSE
  /\ cfError = Undefined
  /\ cfStoredAt = 0
  /\ cfNowAtCall = 0
  /\ cfCacheAtCall = NoEntries
  /\ cfRemoteAtCall = 0
  /\ written = NoEntries
  /\ failed = {}
  /\ stPc = "start"
  /\ favInit = "idle"
  /\ cacheInit = "idle"
  /\ evict = "idle"
  /\ evictRuns = 0
  /\ initialized = "none"
  /\ exitCode = -1
  /\ stMedium \in Media

StartupNext ==
  \/ Main
  \/ FavInitResolves
  \/ FavInitRejects
  \/ CacheInitLoads
  \/ CacheInitStartsEmpty
  \/ CacheInitRejects
  \/ InitializeEvicts
  \/ InitializeFails
  \/ EvictResolves
  \/ EvictRejects

SpecStartup == StartupInit /\ [][StartupNext]_vars

\* ------------------------------------------------- searchMealsByName
\* The catch block: log and return [].
SearchCatchRethrows(kind) == "throw"
SearchCatch(kind) == "empty"

\* The remote call failed: fetch rejected, the status was not ok (which
\* throws inside the try), or json() rejected.
SmFail(kind) ==
  /\ smPc' = "done"
  /\ smOutcome' = kind
  /\ smResult' = IF SearchCatch(kind) = "empty" THEN Arr(<<>>) ELSE smResult
  /\ smRaised' = (SearchCatch(kind) = "throw")
  /\ UNCHANGED <<smQuery, smCalls, smElapsed, smBody>>

SearchMealsByNameCall(query) ==
  /\ smPc = "idle"
  /\ smPc' = "fetch"
  /\ smQuery' = query
  /\ smCalls' = smCalls + 1
  /\ UNCHANGED <<smElapsed, smOutcome, smBody, smResult, smRaised>>
  /\ UNCHANGED <<randomVars, relatedVars>>
  /\ UNCHANGED notClient

\* Time passes while the function awaits: it has no timer of its own.
SmTick ==
  /\ smPc \in {"fetch", "json"}
  /\ smElapsed < MaxElapsed
  /\ smElapsed' = smElapsed + 1
  /\ UNCHANGED <<smPc, smQuery, smCalls, smOutcome, smBody, smResult, smRaised>>
  /\ UNCHANGED <<randomVars, relatedVars>>
  /\ UNCHANGED notClient

SmFetchRejects ==
  /\ smPc = "fetch"
  /\ SmFail("reject")
  /\ UNCHANGED <<randomVars, relatedVars>>
  /\ UNCHANGED notClient

SmFetchNotOk ==
  /\ smPc = "fetch"
  /\ SmFail("notok")
  /\ UNCHANGED <<randomVars, relatedVars>>
  /\ UNCHANGED notClient

SmFetchOk ==
  /\ smPc = "fetch"
  /\ smPc' = "json"
  /\ UNCHANGED <<smQuery, smCalls, smElapsed, smOutcome, smBody, smResult, smRaised>>
  /\ UNCHANGED <<randomVars, relatedVars>>
  /\ UNCHANGED notClient

SmJsonRejects ==
  /\ smPc = "json"
  /\ SmFail("badjson")
  /\ UNCHANGED <<randomVars, relatedVars>>
  /\ UNCHANGED notClient

\* return data.meals || []
SmJsonResolves(meals) ==
  /\ smPc = "json"
  /\ smPc' = "done"
  /\ smOutcome' = "ok"
  /\ smBody' = meals
  /\ smResult' = OrEmpty(meals)
  /\ UNCHANGED <<smQuery, smCalls, smElapsed, smRaised>>
  /\ UNCHANGED <<randomVars, relatedVars>>
  /\ UNCHANGED notClient

\* ----------------------------------------------------- getRandomMeal
\* The function body reads recipe.ok first. No binding named recipe exists
\* in the function or in the module, so the read throws a ReferenceError
\* inside the try and the catch block returns []: no fetch is reached.
GetRandomMealCall ==
  /\ rmPc = "idle"
  /\ rmPc' = "done"
  /\ rmResult' = Arr(<<>>)
  /\ UNCHANGED <<rmCalls, rmRaised>>
  /\ UNCHANGED <<searchVars, relatedVars>>
  /\ UNCHANGED notClient

\* ------------------------------------------------- getRelatedRecipes
\* limit = 3, the default of getRelatedRecipes
DefaultLimit == 3

RelatedLimits == {1, DefaultLimit}

\* A recipe as the catalog returns it, and an object that also has a
\* truthy ok property.
Recipe(id, category) == [t |-> "object", idMeal |-> id, strCategory |-> category]
OkRecipe(id, category) ==
  [t |-> "object", idMeal |-> id, strCategory |-> category, ok |-> TRUE]

\* The recipe arguments: null, a category name (what viewRecipeDetails
\* passes), recipes with and without a category, and an object with ok.
RelatedArgs ==
  {Null, Str("Beef"), Recipe("m1", "Beef"), Recipe("m1", ""), OkRecipe("m1", "Beef")}

\* value.name is truthy, ok being a boolean and the other properties
\* strings (the read itself throws on null and undefined)
Truthy(value, name) ==
  /\ value.t = "object"
  /\ name \in DOMAIN value
  /\ IF name = "ok" THEN value[name] ELSE value[name] # ""

\* The reads of recipe.ok and recipe.strCategory throw a TypeError.
ThrowsOnRead(recipe) == recipe \in {Null, Undefined}

\* if (recipe.ok && recipe.strCategory)
RelatedGuard(recipe) == Truthy(recipe, "ok") /\ Truthy(recipe, "strCategory")

GetRelatedRecipesCall(recipe, limit) ==
  /\ rrPc = "idle"
  /\ rrRecipe' = recipe
  /\ rrLimit' = limit
  /\ IF ThrowsOnRead(recipe)
     THEN /\ rrPc' = "done"
          /\ rrResult' = Arr(<<>>)
          /\ UNCHANGED rrCalls
     ELSE IF RelatedGuard(recipe)
     THEN /\ rrPc' = "fetch"
          /\ rrCalls' = rrCalls + 1
          /\ UNCHANGED rrResult
     ELSE /\ rrPc' = "done"
          /\ rrResult' = Undefined
          /\ UNCHANGED rrCalls
  /\ UNCHANGED <<rrOutcome, rrBody, rrRaised>>
  /\ UNCHANGED <<searchVars, randomVars>>
  /\ UNCHANGED notClient

\* Every way on from the fetch ends in the catch block, which returns [].
RrCaught(kind, meals) ==
  /\ rrPc' = "done"
  /\ rrOutcome' = kind
  /\ rrBody' = meals
  /\ rrResult' = Arr(<<>>)
  /\ UNCHANGED <<rrRecipe, rrLimit, rrCalls, rrRaised>>

RrFetchRejects ==
  /\ rrPc = "fetch"
  /\ RrCaught("reject", Undefined)
  /\ UNCHANGED <<searchVars, randomVars>>
  /\ UNCHANGED notClient

\* !promise.ok: building the message of the Error reads ans before its
\* declaration, a ReferenceError.
RrFetchNotOk ==
  /\ rrPc = "fetch"
  /\ RrCaught("notok", Undefined)
  /\ UNCHANGED <<searchVars, randomVars>>
  /\ UNCHANGED notClient

\* promise.ok: response.json() reads response, which is not declared, a
\* ReferenceError; the body of the response is never decoded.
RrFetchOk(meals) ==
  /\ rrPc = "fetch"
  /\ RrCaught("ok", meals)
  /\ UNCHANGED <<searchVars, randomVars>>
  /\ UNCHANGED notClient

ClientNext ==
  \/ \E query \in Queries : SearchMealsByNameCall(query)
  \/ SmTick
  \/ SmFetchRejects
  \/ SmFetchNotOk
  \/ SmFetchOk
  \/ SmJsonRejects
  \/ \E meals \in BodyMeals : SmJsonResolves(meals)
  \/ GetRandomMealCall
  \/ \E recipe \in RelatedArgs, limit \in RelatedLimits :
       GetRelatedRecipesCall(recipe, limit)
  \/ RrFetchRejects
  \/ RrFetchNotOk
  \/ \E meals \in LetterBodyMeals : RrFetchOk(meals)

ClientInit == ClientIdle /\ RetryIdle /\ FanoutIdle /\ RaceIdle /\ SessionIdle /\ ViewIdle /\ StartupIdle

SpecClient == ClientInit /\ [][ClientNext]_vars

\* ------------------------------------------------------------ claims

GmRemoteCalls == Cardinality({i \in 1..Len(gmLog) : gmLog[i] = "fetch"})
GmAllFailed == \A i \in 1..Len(gmOutcomes) : gmOutcomes[i] # "ok"
GmSucceeded == \E i \in 1..Len(gmOutcomes) : gmOutcomes[i] = "ok"

\* C1: for attempts N >= 1, getMealById never rejects, and when every
\* remote call failed (rejected fetch, non-ok status or undecodable body) it
\* ends after exactly N remote calls with the result null.
C1_RetryExhaustion ==
  gmN >= 1 =>
    /\ ~gmRaised
    /\ GmRemoteCalls <= gmN
    /\ (gmPc = "done" /\ GmAllFailed) =>
         (GmRemoteCalls = gmN /\ Len(gmOutcomes) = gmN /\ gmResult = Null)

C1_Witness ==
  /\ gmPc = "done"
  /\ gmN >= 2
  /\ GmAllFailed
  /\ Len(gmOutcomes) = gmN
  /\ \E i, j \in 1..Len(gmOutcomes) : gmOutcomes[i] = "notok" /\ gmOutcomes[j] = "badjson"

\* C2: once an attempt got an ok, decodable response the call is over with
\* no further remote call, and its result is the first element of the
\* returned list, or null when the list is empty or absent.
C2_RetrySuccess ==
  GmSucceeded =>
    /\ gmPc = "done"
    /\ ~gmRaised
    /\ gmOutcomes[Len(gmOutcomes)] = "ok"
    /\ Cardinality({i \in 1..Len(gmOutcomes) : gmOutcomes[i] = "ok"}) = 1
    /\ GmRemoteCalls = Len(gmOutcomes)
    /\ gmResult = IF gmBody = Null THEN Null
                  ELSE IF gmBody.v = <<>> THEN Null
                  ELSE Head(gmBody.v)

C2_Witness ==
  /\ gmPc = "done"
  /\ GmSucceeded
  /\ Len(gmOutcomes) >= 2
  /\ gmBody # Null
  /\ Len(gmBody.v) = 2
  /\ gmResult = gmBody.v[1]
  /\ gmBody.v[1] # gmBody.v[2]

\* The records of the calls that succeeded, concatenated in fan-out order.
RECURSIVE FlConcatTo(_)
FlConcatTo(n) ==
  IF n = 0 THEN <<>>
  ELSE FlConcatTo(n - 1) \o
       (IF flOutcome[n] = "ok" THEN OrEmpty(flBody[n]).v ELSE <<>>)

FlFanoutDone == flPc = "done" /\ flLetters.t = "array"
FlFailed(i) == flOutcome[i] \in {"reject", "notok", "badjson"}
FlIds(s) == {s[i].idMeal : i \in 1..Len(s)}
FlUniqueIds(s) == \A i, j \in 1..Len(s) : i # j => s[i].idMeal # s[j].idMeal

\* C3: the result holds each record id of the concatenated partial results
\* exactly once, and the record kept for an id is its first occurrence in
\* that concatenation.
C3_FanoutDedupFirstSeen ==
  FlFanoutDone =>
    LET all == FlConcatTo(Len(flOutcome))
        res == flResult.v
    IN /\ FlUniqueIds(res)
       /\ FlIds(res) = FlIds(all)
       /\ \A i \in 1..Len(res) :
            LET first == CHOOSE k \in 1..Len(all) :
                           /\ all[k].idMeal = res[i].idMeal
                           /\ \A l \in 1..(k - 1) : all[l].idMeal # res[i].idMeal
            IN res[i] = all[first]

\* C4: when calls of the batch failed, each of them contributed an empty
\* partial result, the function waited for every call and resolved (it did
\* not reject), and the result holds exactly the record ids returned by the
\* succeeding calls, each once, with a record one of them returned.
C4_FanoutPartialTolerance ==
  (FlFanoutDone /\ \E i \in 1..Len(flOutcome) : FlFailed(i)) =>
    LET all == FlConcatTo(Len(flOutcome))
        res == flResult.v
    IN /\ ~flRaised
       /\ \A i \in 1..Len(flCall) : flCall[i] = "fulfilled"
       /\ \A i \in 1..Len(flOutcome) : FlFailed(i) => flPartial[i] = Arr(<<>>)
       /\ flResult.t = "array"
       /\ FlUniqueIds(res)
       /\ FlIds(res) = FlIds(all)
       /\ \A i \in 1..Len(res) : \E k \in 1..Len(all) : res[i] = all[k]

C4_Witness ==
  /\ FlFanoutDone
  /\ Len(flOutcome) >= 2
  /\ Cardinality({i \in 1..Len(flOutcome) : FlFailed(i)}) = 1
  /\ FlFailed(1)
  /\ Len(flResult.v) >= 1

\* C5: when the timer fires before the remote call has settled (also when
\* it never settles), the function resolves with the timeout signal, which
\* is a string and not a list, so not the empty-list success value.
C5_TimeoutSentinel ==
  /\ ingWinner = "timer" =>
       /\ ingPc = "done"
       /\ ~ingRaised
       /\ ingResult = Str("took too long")
       /\ ingResult.t # "array"
       /\ ingResult # Arr(<<>>)
  /\ (ingPc # "idle" /\ ingFetch \in {"pending", "json"}
        /\ ingElapsed * TickMs > ingTimeoutMs) =>
       ingResult = Str("took too long")

C5_Witness ==
  /\ ingWinner = "timer"
  /\ ingTimeoutMs > 0
  /\ ingFetch = "fulfilled"
  /\ ingOutcome = "ok"
  /\ ingValue = Arr(<<>>)
  /\ ingResult = Str("took too long")

\* C6: an empty-list success, a timeout and a fetch failure (a network
\* error or a non-ok status) give three pairwise different results: no
\* failed call resolves with the empty list.
C6_OutcomesDistinct ==
  ingPc = "done" =>
    /\ ingWinner = "timer" => ingResult = Str("took too long")
    /\ (ingWinner = "fetch" /\ ingOutcome = "ok") => ingResult.t = "array"
    /\ (ingWinner = "fetch" /\ ingOutcome \in {"reject", "notok"}) =>
         /\ ingResult.t = "string"
         /\ ingResult # Str("took too long")

\* The entry the running call found under its key was fresh.
CfFreshAtCall ==
  /\ cfCacheAtCall[cfKey] # Undefined
  /\ cfNowAtCall - cfCacheAtCall[cfKey].storedAt <= cfCacheAtCall[cfKey].ttl

\* C7: a call that finds a fresh entry (now - storedAt <= ttl) under its
\* key returns the stored value, invokes the producer zero times and makes
\* no remote call; with an absent or expired entry it invokes the producer.
C7_CacheHitShortCircuit ==
  cfPc # "idle" =>
    /\ CfFreshAtCall =>
         /\ cfPc = "done"
         /\ cfResult = cfCacheAtCall[cfKey].value
         /\ cfProducerCalls = 0
         /\ remoteCalls = cfRemoteAtCall
         /\ cache = cfCacheAtCall
         /\ ~cfRaised
    /\ ~CfFreshAtCall => cfProducerCalls = 1

C7_Witness ==
  /\ cfPc = "done"
  /\ cfCmd = "searchByIngredient"
  /\ CfFreshAtCall
  /\ cfNowAtCall > cfCacheAtCall[cfKey].storedAt
  /\ cfResult.t = "array"
  /\ Len(cfResult.v) >= 1
  /\ remoteCalls = 1

\* C8: a call that missed invokes the producer once, stores the result
\* under its key with the default TTL and returns it, leaving the other
\* keys alone; a later call with that key within the TTL returns the stored
\* value without invoking the producer or making a remote call.
C8_CacheMissWriteThrough ==
  /\ cfProducerCalls <= 1
  /\ (cfPc = "done" /\ cfProducerCalls = 1 /\ ~cfRaised) =>
       /\ cache[cfKey] = [t |-> "entry", value |-> cfResult, storedAt |-> cfStoredAt,
                          ttl |-> DefaultTtl]
       /\ cfNowAtCall <= cfStoredAt
       /\ cfStoredAt <= now
       /\ \A k \in CacheKeys \ {cfKey} : cache[k] = cfCacheAtCall[k]
  /\ (cfPc # "idle" /\ written[cfKey] # Undefined
        /\ cfNowAtCall - written[cfKey].at <= DefaultTtl) =>
       /\ cfPc = "done"
       /\ cfProducerCalls = 0
       /\ cfResult = written[cfKey].value
       /\ remoteCalls = cfRemoteAtCall

C8_Witness ==
  /\ cfPc = "done"
  /\ written[cfKey] # Undefined
  /\ cfNowAtCall > written[cfKey].at
  /\ cfNowAtCall - written[cfKey].at <= DefaultTtl
  /\ cfProducerCalls = 0
  /\ cfResult = written[cfKey].value
  /\ cfResult = Str("took too long")

\* C9: when the producer raises, the cache store is as it was at the call,
\* the caller gets the producer's error as it is, and the next call with
\* that key invokes the producer again.
C9_NoPoisonEntries ==
  /\ (cfPc = "done" /\ cfRaised) =>
       /\ cache = cfCacheAtCall
       /\ cfError = JsonTypeError
       /\ cfResult = Undefined
       /\ cfProducerCalls = 1
  /\ (cfPc # "idle" /\ cfKey \in failed) => cfProducerCalls = 1

C9_Witness ==
  /\ cfPc = "done"
  /\ cfRaised
  /\ cfKey \in failed
  /\ cache[cfKey] # Undefined
  /\ remoteCalls = 2

\* C10: clearExpiredCache is called at most once, only when both
\* initializeFavorites and initializeCache have resolved (so never before
\* or while initializeCache runs), never when one of them rejected, and
\* exactly once in every startup that reaches the menu.
C10_StartupOrdering ==
  /\ evictRuns <= 1
  /\ evictRuns = 0 <=> evict = "idle"
  /\ evict # "idle" => (cacheInit = "resolved" /\ favInit = "resolved")
  /\ (cacheInit = "rejected" \/ favInit = "rejected") => evictRuns = 0
  /\ stPc = "menu" => (evictRuns = 1 /\ evict = "resolved" /\ initialized = "true")

C10_Witness ==
  /\ stPc = "menu"
  /\ evictRuns = 1
  /\ \E k \in CacheKeys : stMedium[k] # Undefined /\ cache[k] = Undefined
  /\ \E k \in CacheKeys : stMedium[k] # Undefined /\ cache[k] = stMedium[k]

GmWaits == Cardinality({i \in 1..Len(gmLog) : gmLog[i] = "wait"})

\* A step in which a remote call of the run fails.
GmAttemptFails ==
  /\ gmPc \in {"fetch", "json"}
  /\ Len(gmOutcomes') = Len(gmOutcomes) + 1
  /\ gmOutcomes'[Len(gmOutcomes')] # "ok"

\* What a step of a run does about the backoff wait.
GmBackoffStep ==
  /\ (GmAttemptFails /\ gmAttempts > 1) =>
       (gmPc' = "backoff" /\ gmLog' = Append(gmLog, "wait"))
  /\ (GmAttemptFails /\ gmAttempts <= 1) =>
       (gmPc' = "done" /\ gmLog' = gmLog)
  /\ gmPc = "backoff" =>
       /\ gmPc' = "fetch"
       /\ gmAttempts' = gmAttempts - 1
       /\ gmLog' = Append(gmLog, "fetch")

\* C17: in a run of getMealById remote calls and backoff waits alternate,
\* starting with a call; a failed attempt with attempts > 1 starts exactly
\* one wait, after which the next call is made with attempts decremented by
\* one; a failed attempt with attempts <= 1 ends the run with no wait; so a
\* finished run of k calls holds k - 1 waits, each between two calls.
C17_BackoffOrdering ==
  /\ [](gmPc # "idle" =>
         /\ \A i \in 1..Len(gmLog) :
              gmLog[i] = IF i % 2 = 1 THEN "fetch" ELSE "wait"
         /\ (gmPc = "backoff") <=> (Len(gmLog) % 2 = 0)
         /\ gmPc = "done" => GmWaits = GmRemoteCalls - 1)
  /\ [][GmBackoffStep]_vars

C17_Witness ==
  /\ gmPc = "done"
  /\ gmN = 3
  /\ gmAttempts = 1
  /\ GmAllFailed
  /\ gmLog = <<"fetch", "wait", "fetch", "wait", "fetch">>
  /\ gmResult = Null

\* C13: a batch makes exactly one remote call for each distinct key of its
\* input, and no two calls of the batch carry the same query, also when the
\* input repeats a key or holds two keys with the same first character.
C13_OneCallPerDistinctKey ==
  (flPc # "idle" /\ flLetters.t = "array") =>
    /\ Len(flUrls) = Cardinality({flLetters.v[i] : i \in 1..Len(flLetters.v)})
    /\ \A i, j \in 1..Len(flUrls) : i # j => flUrls[i] # flUrls[j]

\* Where an id occurs first in a list of records.
FlFirstAt(all, id) ==
  CHOOSE k \in 1..Len(all) :
    all[k].idMeal = id /\ \A l \in 1..(k - 1) : all[l].idMeal # id

\* C18: the returned list is a function of the input list and of the
\* response each call got, whichever call returned first: it is the merge of
\* the responses taken in fan-out order, and its records are in the order
\* in which their ids first occur in that fan-out-order concatenation.
C18_SettleOrderIndependence ==
  FlFanoutDone =>
    LET all == FlConcatTo(Len(flOutcome))
        res == flResult.v
    IN /\ flResult = Arr(OnlyOne(all))
       /\ \A p, q \in 1..Len(res) :
            p < q => FlFirstAt(all, res[p].idMeal) < FlFirstAt(all, res[q].idMeal)

C18_Witness ==
  /\ FlFanoutDone
  /\ Len(flOutcome) = 2
  /\ flFirst = 2
  /\ flOutcome[1] = "ok" /\ flOutcome[2] = "ok"
  /\ flBody[1] # Null /\ flBody[2] # Null
  /\ Len(flBody[1].v) = 1 /\ Len(flBody[2].v) = 1
  /\ flBody[1].v[1].idMeal # flBody[2].v[1].idMeal
  /\ flResult.v = <<flBody[1].v[1], flBody[2].v[1]>>

\* A step that starts a batch on an array of letters.
FlBatchStarts == flPc = "idle" /\ flPc' = "await"

\* C19: the step that starts a batch starts the remote call of every
\* element of the input before anything is awaited, and the function has
\* returned only when every call of the batch has settled: a call that
\* failed does not make it return while another call is outstanding.
C19_JoinAll ==
  /\ [][FlBatchStarts =>
          /\ Len(flCall') = Len(flLetters'.v)
          /\ \A i \in 1..Len(flCall') : flCall'[i] = "fetch"]_vars
  /\ [](FlFanoutDone =>
         /\ Len(flCall) = Len(flLetters.v)
         /\ \A i \in 1..Len(flCall) :
              flCall[i] \notin {"fetch", "json"} /\ flOutcome[i] # "pending")

C19_Witness ==
  /\ FlFanoutDone
  /\ Len(flCall) = 2
  /\ flFirst = 2
  /\ flOutcome[2] = "reject"
  /\ flOutcome[1] = "ok"
  /\ Len(flResult.v) = 1

\* The race of a call is decided in this step.
IngDecided == ingPc = "race" /\ ingPc' = "done"

\* What a step of a call may do to the race and to its outcome.
IngFirstSettlesWins ==
  /\ IngDecided =>
       \/ /\ ingWinner' = "fetch"
          /\ ingFetch \in {"pending", "json"} /\ ingFetch' \in {"fulfilled", "rejected"}
          /\ ingTimer = "pending" /\ ingTimer' = "pending"
          /\ ingResult' = IF ingFetch' = "fulfilled" THEN ingValue'
                          ELSE Str("An unexpected error has been occurred")
       \/ /\ ingWinner' = "timer"
          /\ ingTimer = "pending" /\ ingTimer' = "fired"
          /\ ingFetch \in {"pending", "json"} /\ ingFetch' = ingFetch
          /\ ingResult' = Str("took too long")
  /\ ingPc = "done" =>
       /\ ingPc' = "done"
       /\ ingWinner' = ingWinner
       /\ ingResult' = ingResult

\* C20: the step in which the first of the remote call and the timer
\* settles fixes the returned value from that settlement alone; the other
\* one stays outstanding, and no later step (its late response, late
\* rejection or late firing) changes the returned value, makes the call
\* reject, or leaves a rejection without a handler.
C20_FirstSettlesWins ==
  /\ [][IngFirstSettlesWins]_vars
  /\ [](~ingRaised /\ ~ingUnhandled)

\* The timer won and the remote call was rejected afterwards.
C20_Witness ==
  /\ ingPc = "done"
  /\ ingWinner = "timer"
  /\ ingFetch = "rejected"
  /\ ingResult = Str("took too long")
  /\ ~ingUnhandled

\* The remote call won with records and the timer fired afterwards.
C20_WitnessLateTimer ==
  /\ ingPc = "done"
  /\ ingWinner = "fetch"
  /\ ingTimer = "fired"
  /\ ingResult.t = "array"
  /\ Len(ingResult.v) > 0

\* C14: getRandomMeal makes exactly one remote call and resolves with a
\* record or with null, never with a list and never by rejecting.
C14_RandomPick ==
  rmPc = "done" =>
    /\ rmCalls = 1
    /\ ~rmRaised
    /\ rmResult.t \in {"null", "object"}

\* The records of a list whose id is not the given one.
RECURSIVE RrOthers(_, _)
RrOthers(meals, id) ==
  IF meals = <<>> THEN <<>>
  ELSE (IF Head(meals).idMeal = id THEN <<>> ELSE <<Head(meals)>>)
       \o RrOthers(Tail(meals), id)

RrTake(meals, n) == SubSeq(meals, 1, IF Len(meals) < n THEN Len(meals) ELSE n)

\* C15: getRelatedRecipes never rejects and resolves with a list; for a
\* recipe with a category it makes the one filter-by-category call, and the
\* list is the first limit records of the response whose id is not the
\* recipe's, or the empty list when the call failed.
C15_RelatedRecipes ==
  rrPc = "done" =>
    /\ ~rrRaised
    /\ rrResult.t = "array"
    /\ Truthy(rrRecipe, "strCategory") =>
         /\ rrCalls = 1
         /\ Len(rrResult.v) <= rrLimit
         /\ \A i \in 1..Len(rrResult.v) : rrResult.v[i].idMeal # rrRecipe.idMeal
         /\ rrOutcome = "ok" =>
              rrResult.v = RrTake(RrOthers(OrEmpty(rrBody).v, rrRecipe.idMeal), rrLimit)
         /\ rrOutcome \in {"reject", "notok"} => rrResult = Arr(<<>>)

\* C16: searchMealsByName makes exactly one remote call, returns only when
\* that call has ended (however long it takes), never rejects, and resolves
\* with the list of the decoded body, an absent or null list as the empty
\* list, or with the empty list when the fetch, the status or the decoding
\* failed.
C16_SearchByName ==
  /\ ~smRaised
  /\ smPc # "idle" => smCalls = 1
  /\ smPc = "done" =>
       /\ smOutcome # "pending"
       /\ smResult.t = "array"
       /\ smOutcome = "ok" =>
            smResult = (IF smBody = Null THEN Arr(<<>>) ELSE smBody)
       /\ smOutcome \in {"reject", "notok", "badjson"} => smResult = Arr(<<>>)

C16_Witness ==
  /\ smPc = "done"
  /\ smElapsed = MaxElapsed
  /\ smOutcome = "ok"
  /\ smBody = Null
  /\ smResult = Arr(<<>>)
  /\ smCalls = 1

CfOutstanding == cfPc = "producing"
DvOutstanding == dvPc = "producing"

\* C12: at most one getCachedOrFetch request is outstanding at a time, and
\* the menu starts a command only when no recipe view started earlier is
\* still under way.
C12_SingleOutstandingRequest ==
  /\ [](~(CfOutstanding /\ DvOutstanding))
  /\ [][(AtMenu /\ commands' = commands + 1) => dvPc = "idle"]_vars

\* The most remote calls a call with the attempts argument gmN may make.
GmMaxCalls == IF gmN > 1 THEN gmN ELSE 1

\* A retry: the wait is over and the recursive call fetches.
GmRetries == gmPc = "backoff" /\ gmPc' = "fetch"

GmCounterDecreases == GmRetries => (gmAttempts > 1 /\ gmAttempts' < gmAttempts)

\* C24: for every integer attempts argument, 0 and negative ones included,
\* a call of getMealById whose remote calls and waits all settle ends; it
\* makes at least 1 and at most max(1, attempts) remote calls; the remaining
\* attempts strictly decrease on every retry, and no retry is started once
\* they are <= 1.
C24_RetryTermination ==
  /\ [](gmPc # "idle" => (GmRemoteCalls >= 1 /\ GmRemoteCalls <= GmMaxCalls))
  /\ [](gmPc = "backoff" => gmAttempts > 1)
  /\ [][GmCounterDecreases]_vars
  /\ (gmPc # "idle" ~> gmPc = "done")

C24_Witness ==
  /\ gmPc = "done"
  /\ gmN < 0
  /\ GmRemoteCalls = 1
  /\ GmAllFailed
  /\ gmResult = Null
  /\ ~gmRaised

\* The messages getMealsByIngredient returns in place of a list.
IngSentinels == {Str("took too long"), Str("An unexpected error has been occurred")}

\* searchByIngredient's call of getCachedOrFetch has returned.
CfIngredientDone == cfPc = "done" /\ cfCmd = "searchByIngredient"

\* C21: when getMealsByIngredient ends with the timeout message or the
\* unexpected-error message, the producer of searchByIngredient resolves
\* with it (it does not raise) and the message is stored under the
\* ingredient key with the default TTL; a search for the same ingredient
\* within the TTL returns the stored message and makes no remote call.
C21_SentinelsCached ==
  /\ (CfIngredientDone /\ cfProducerCalls = 1) =>
       /\ ingPc = "done"
       /\ ~ingRaised
       /\ ~cfRaised
       /\ ingWinner = "timer" => ingResult = Str("took too long")
       /\ ingOutcome \in {"reject", "badjson"} /\ ingWinner = "fetch" =>
            ingResult = Str("An unexpected error has been occurred")
       /\ cfResult = ingResult
       /\ cache[cfKey] = Entry(ingResult, cfStoredAt, DefaultTtl)
  /\ (cfCmd = "searchByIngredient" /\ cfPc # "idle"
        /\ IsFresh(cfCacheAtCall[cfKey], cfNowAtCall)
        /\ cfCacheAtCall[cfKey].value \in IngSentinels) =>
       /\ cfPc = "done"
       /\ cfProducerCalls = 0
       /\ ~cfRaised
       /\ cfResult = cfCacheAtCall[cfKey].value
       /\ remoteCalls = cfRemoteAtCall
       /\ ingPc = "idle"

C21_Witness ==
  /\ CfIngredientDone
  /\ commands = 2
  /\ cfProducerCalls = 0
  /\ remoteCalls = 1
  /\ written[cfKey] # Undefined
  /\ written[cfKey].value = Str("An unexpected error has been occurred")
  /\ cfResult = written[cfKey].value

\* C22: a searchRecipes command that misses on its search_<query> key gets
\* the list of searchMealsByName(query) from its producer, which is stored
\* under the key with the default TTL and is the command's result; the same
\* search within the TTL is served from the cache without a remote call.
C22_SearchCommandCaching ==
  /\ (cfCmd = "searchRecipes" /\ cfPc # "idle") => cfKey[1] = "search"
  /\ (cfCmd = "searchRecipes" /\ cfPc = "done" /\ cfProducerCalls = 1) =>
       /\ ~cfRaised
       /\ cfResult.t = "array"
       /\ cache[cfKey] = Entry(cfResult, cfStoredAt, DefaultTtl)
       /\ remoteCalls = cfRemoteAtCall + 1
  /\ (cfCmd = "searchRecipes" /\ cfPc # "idle"
        /\ IsFresh(cfCacheAtCall[cfKey], cfNowAtCall)) =>
       /\ cfPc = "done"
       /\ cfProducerCalls = 0
       /\ cfResult = cfCacheAtCall[cfKey].value
       /\ remoteCalls = cfRemoteAtCall

\* The distinct lower-cased letters of an input.
DistinctLetters(letters) == {LowerChars(letters)[i] : i \in 1..Len(letters)}

FlLettersPassed == {flLetters.v[i] : i \in 1..Len(flLetters.v)}

MinOf(a, b) == IF a < b THEN a ELSE b

\* C23: on a miss, exploreByFirstLetter gives searchMealsByFirstLetter the
\* unique lower-cased letters of the input, at most 3 of them, so that an
\* input of k distinct letters makes exactly min(k, 3) remote calls, and the
\* merged records are stored under the letters key.
C23_ExploreFanout ==
  (cfCmd = "exploreByFirstLetter" /\ cfPc = "done" /\ cfProducerCalls = 1) =>
    \A letters \in LetterInputs :
      cfKey = LettersKey(UniqueLetters(letters)) =>
        /\ flLetters.t = "array"
        /\ FlLettersPassed \subseteq DistinctLetters(letters)
        /\ Cardinality(FlLettersPassed) = Len(flLetters.v)
        /\ Len(flLetters.v) = MinOf(Cardinality(DistinctLetters(letters)), LetterLimit)
        /\ remoteCalls =
             cfRemoteAtCall + MinOf(Cardinality(DistinctLetters(letters)), LetterLimit)
        /\ ~cfRaised
        /\ cfResult = flResult
        /\ cache[cfKey] = Entry(flResult, cfStoredAt, DefaultTtl)

====
